---- MODULE Spec2Model ----
(***************************************************************************)
(* Grid bot position state machine (GridBot, main.py) with the execution   *)
(* gateway (ByBit, one-way position mode) and the SQLite ledger store.     *)
(*                                                                         *)
(* Money is kept in integer units of 1/MoneyScale USDT so that the fee     *)
(* rate 0.00055 = FeeNum/FeeDen and the 3% loss buffer are exact.          *)
(* Quantities are integer multiples of qty_step.  Python's None is         *)
(* NoLevel / NoZone / NoPos.                                               *)
(***************************************************************************)
EXTENDS Integers, Sequences, FiniteSets, TLC

\* ---------------------------------------------------------------- bounds
MaxOps == 3             \* handlers stop after this many state-changing runs

MaxRestartOps == 2      \* the same, in the specification with restarts
MaxLiveOps == 2         \* the same for ticks, in the specification of the fair poll
MaxReversals == 1       \* further reverse_with_close_open_method calls in TesterSpec
MaxPrice == 35          \* highest price fed to the tracker in TrackerSpec
MaxSize == 2            \* largest position size fed to the P&L calculator in PnlSpec
MaxSaves == 2           \* StateManager.save_state calls in FileSpec
MaxUpdates == 3         \* realized P&Ls applied to the ledger in LedgerSpec

\* ------------------------------------------------- configuration (config.json)
GridLevels == <<101, 103>>  \* sorted(config["GRID_LEVELS"])
Leverage == 2           \* config["LEVERAGE"]
BaseUsdt == 100         \* config["USDT"], whole USDT
MinQty == 1             \* lotSizeFilter.minOrderQty, in qty_step units

SlRoe == 10             \* config["SL"]["ROE"], percent
TpRoe == 20             \* config["TP"]["ROE"], percent

\* ------------------------------------------------------ numeric constants
FeeNum == 11            \* 0.00055 = 11 / 20000
FeeDen == 20000
BufferPct == 3          \* 3% safety buffer on losses
MoneyScale == 2000000   \* FeeDen * 100 units per USDT

Prices == {100, 101, 102, 104}   \* prices the market takes: below, on, between, above levels
\* the tracker on its own: the levels of the specification's examples and
\* every whole price from below the lowest to above the highest of them
TrackerLevels == <<10, 20, 30>>
TrackerPrices == 1..MaxPrice
\* the P&L calculator on its own: entry and exit prices around 100, with the
\* gain of 10 and the loss of 10 of the worked examples
PnlPrices == {90, 99, 100, 101, 110}
\* the order builder on its own: prices in 1/PriceScale USDT, from symbols
\* quoted in cents (0.04, 0.08, 0.60, 3.00) to symbols quoted around 100
PriceScale == 1000
OrderPrices == {40, 80, 600, 3000, 100000, 101000, 102000, 104000}
\* realized P&L amounts fed to the ledger: losses, break-even, profits
PnLs == {(0 - 3) * MoneyScale, 0 - MoneyScale, 0, 2 * MoneyScale, 5 * MoneyScale}
NoLevel == 0            \* current_grid_level / crossed level is None
NoZone == 0 - 1         \* last_grid_zone is None
NoPrice == 0            \* last_price is None, or a failed price query
NoPos == [side |-> "None", size |-> 0, entry_price |-> 0]

VARIABLES
    \* GridBot runtime memory
    current_position, current_grid_level, last_price, last_grid_zone,
    accumulated_losses, daily_pnl, total_trades,
    \* ledger store (SQLite): connection, bot_state row, trades table
    conn, bot_state, trades,
    \* execution gateway: authoritative position and last traded price
    gw_position, gw_price,
    \* where the stream's delivery thread is inside handle_ticker, and the
    \* locals it holds across its gateway calls
    tick_pc, tick_local,
    \* where the main loop is inside monitor_position_status
    poll_pc,
    \* the JSON state backup (StateManager): its dict, its lock, its clock and
    \* the files it writes
    state_manager,
    \* number of handler runs that opened, reversed or booked something
    ops,
    \* the last step: which handler ran, the level check_grid_crossing
    \* returned, the branch taken and the outcome of each gateway call made
    \* ("none" when the call was not made)
    ev

vars == <<current_position, current_grid_level, last_price, last_grid_zone,
          accumulated_losses, daily_pnl, total_trades, conn, bot_state, trades,
          gw_position, gw_price, tick_pc, tick_local, poll_pc,
          state_manager, ops, ev>>

botVars == <<current_position, current_grid_level, accumulated_losses,
             daily_pnl, total_trades>>
ledgerVars == <<accumulated_losses, daily_pnl, total_trades>>
trackerVars == <<last_price, last_grid_zone>>
storeVars == <<conn, bot_state, trades>>
gwVars == <<gw_position, gw_price>>
threadVars == <<tick_pc, tick_local, poll_pc>>

Abs(x) == IF x < 0 THEN 0 - x ELSE x
Max(a, b) == IF a > b THEN a ELSE b
Opposite(side) == IF side = "Buy" THEN "Sell" ELSE "Buy"

\* ------------------------------------------------------------ P&L calculator
\* mutant: the 3% buffer is taken from profits as well
calculate_exact_pnl_buffer_always(entry_price, exit_price, size, side) ==
    LET raw_pnl == IF side = "Buy" THEN (exit_price - entry_price) * size
                   ELSE (entry_price - exit_price) * size
        pnl_after_fees == raw_pnl * FeeDen
                          - (size * entry_price + size * exit_price) * FeeNum
    IN  pnl_after_fees * 100 - Abs(pnl_after_fees) * BufferPct

\* calculate_exact_pnl_with_buffer, result in 1/MoneyScale USDT
calculate_exact_pnl_with_buffer(entry_price, exit_price, size, side) ==
    LET raw_pnl == IF side = "Buy" THEN (exit_price - entry_price) * size
                   ELSE (entry_price - exit_price) * size
        \* scaled by FeeDen: raw - (size*entry + size*exit) * 0.00055
        pnl_after_fees == raw_pnl * FeeDen
                          - (size * entry_price + size * exit_price) * FeeNum
    IN  IF pnl_after_fees < 0
        THEN pnl_after_fees * 100 - Abs(pnl_after_fees) * BufferPct
        ELSE pnl_after_fees * 100

\* --------------------------------------------------------- grid zone tracker
\* mutant: a price on a level counts as above it
get_grid_zone_strict(levels, price) ==
    Cardinality({j \in 1..Len(levels) : levels[j] <= price})

\* mutant: a falling price reports nothing
check_grid_crossing_rising_only(levels, lp, lz, cp) ==
    LET zone == Cardinality({j \in 1..Len(levels) : levels[j] < cp})
        up == SelectSeq(levels, LAMBDA level : lp < level /\ level <= cp)
    IN  [ret |-> IF lp # NoPrice /\ lz # NoZone /\ zone # lz /\ cp > lp
                    /\ Len(up) > 0
                 THEN up[1] ELSE NoLevel,
         last_price |-> cp, last_grid_zone |-> zone]

\* mutant: the tracker is refreshed only when a crossing is reported
check_grid_crossing_keeps_tracker(levels, lp, lz, cp) ==
    LET zone == Cardinality({j \in 1..Len(levels) : levels[j] < cp})
        cl == IF cp > lp
              THEN SelectSeq(levels, LAMBDA level : lp < level /\ level <= cp)
              ELSE SelectSeq(levels, LAMBDA level : cp <= level /\ level < lp)
        hit == lp # NoPrice /\ lz # NoZone /\ zone # lz /\ Len(cl) > 0
    IN  [ret |-> IF hit THEN cl[1] ELSE NoLevel,
         last_price |-> IF hit \/ lp = NoPrice THEN cp ELSE lp,
         last_grid_zone |-> IF hit \/ lp = NoPrice THEN zone ELSE lz]

\* mutant: a falling price reports the crossed level nearest to where it was
check_grid_crossing_nearest_level(levels, lp, lz, cp) ==
    LET zone == Cardinality({j \in 1..Len(levels) : levels[j] < cp})
        up == SelectSeq(levels, LAMBDA level : lp < level /\ level <= cp)
        down == SelectSeq(levels, LAMBDA level : cp <= level /\ level < lp)
        hit == lp # NoPrice /\ lz # NoZone /\ zone # lz
    IN  [ret |-> IF hit /\ cp > lp /\ Len(up) > 0 THEN up[1]
                 ELSE IF hit /\ cp <= lp /\ Len(down) > 0
                      THEN down[Len(down)]
                 ELSE NoLevel,
         last_price |-> cp, last_grid_zone |-> zone]

RECURSIVE ZoneFrom(_, _, _)
ZoneFrom(levels, price, i) ==
    IF i > Len(levels) THEN Len(levels)
    ELSE IF price <= levels[i] THEN i - 1
    ELSE ZoneFrom(levels, price, i + 1)

get_grid_zone(levels, price) == ZoneFrom(levels, price, 1)

\* the list comprehension of check_grid_crossing, in list (ascending) order
crossed_levels(levels, lp, cp) ==
    IF cp > lp
    THEN SelectSeq(levels, LAMBDA level : lp < level /\ level <= cp)
    ELSE SelectSeq(levels, LAMBDA level : cp <= level /\ level < lp)

\* check_grid_crossing: returned level and the tracker state it leaves
check_grid_crossing(levels, lp, lz, cp) ==
    IF lp = NoPrice
    THEN [ret |-> NoLevel, last_price |-> cp,
          last_grid_zone |-> get_grid_zone(levels, cp)]
    ELSE LET current_zone == get_grid_zone(levels, cp)
             cl == crossed_levels(levels, lp, cp)
         IN  [ret |-> IF lz # NoZone /\ current_zone # lz /\ Len(cl) > 0
                      THEN cl[1] ELSE NoLevel,
              last_price |-> cp, last_grid_zone |-> current_zone]

\* ------------------------------------------------------ loss-recovery sizing
\* mutant: without a store connection the ledger is left alone
update_pnl_tracking_needs_store(acc, daily, n, trade_pnl) ==
    IF conn
    THEN [accumulated_losses |->
              IF trade_pnl < 0 THEN acc - trade_pnl
              ELSE IF acc > trade_pnl THEN acc - trade_pnl ELSE 0,
          daily_pnl |-> daily + trade_pnl,
          total_trades |-> n + 1]
    ELSE [accumulated_losses |-> acc, daily_pnl |-> daily, total_trades |-> n]

\* mutant: a profit is subtracted without the floor at zero
update_pnl_tracking_unclamped(acc, daily, n, trade_pnl) ==
    [accumulated_losses |-> acc - trade_pnl,
     daily_pnl |-> daily + trade_pnl,
     total_trades |-> n + 1]

\* mutant: only losing trades are counted
update_pnl_tracking_counts_losses(acc, daily, n, trade_pnl) ==
    [accumulated_losses |->
         IF trade_pnl < 0 THEN acc - trade_pnl
         ELSE IF acc > trade_pnl THEN acc - trade_pnl ELSE 0,
     daily_pnl |-> daily + trade_pnl,
     total_trades |-> IF trade_pnl < 0 THEN n + 1 ELSE n]

\* update_pnl_tracking, the in-memory part: the new ledger triple
update_pnl_tracking(acc, daily, n, trade_pnl) ==
    [accumulated_losses |->
         IF trade_pnl < 0 THEN acc + Abs(trade_pnl)
         ELSE IF acc > 0 THEN Max(0, acc - trade_pnl) ELSE acc,
     daily_pnl |-> daily + trade_pnl,
     total_trades |-> n + 1]

\* mutant: the stake ignores the outstanding losses
calculate_position_size_base_only(acc) == BaseUsdt * MoneyScale

\* calculate_position_size_with_recovery, in 1/MoneyScale USDT
calculate_position_size_with_recovery(acc) == BaseUsdt * MoneyScale + acc

\* calculate_position_size after a successful price query: round_down to the
\* qty step, raised to min_qty
calculate_position_size(usdt_amount, price) ==
    LET qty == (usdt_amount * Leverage) \div (price * MoneyScale)
    IN  IF qty < MinQty THEN MinQty ELSE qty

\* ------------------------------------------------------------ ledger store
\* the row save_state writes: UPDATE bot_state SET ... WHERE id = 1
StateRow(acc, daily, n, level) ==
    [accumulated_losses |-> acc, daily_pnl |-> daily, total_trades |-> n,
     current_grid_level |-> level]

\* save_state: no-op without a connection (init_database failed)
save_state(row, acc, daily, n, level) ==
    IF conn THEN StateRow(acc, daily, n, level) ELSE row

\* mutant: the new row replaces the table
log_trade_overwrites(log, side, grid_level, usdt_amount, pnl, acc_after) ==
    IF conn
    THEN <<[side |-> side, grid_level |-> grid_level,
            usdt_amount |-> usdt_amount, pnl |-> pnl,
            accumulated_losses_after |-> acc_after]>>
    ELSE log

\* log_trade: INSERT INTO trades; no-op without a connection
log_trade(log, side, grid_level, usdt_amount, pnl, acc_after) ==
    IF conn
    THEN Append(log, [side |-> side, grid_level |-> grid_level,
                      usdt_amount |-> usdt_amount, pnl |-> pnl,
                      accumulated_losses_after |-> acc_after])
    ELSE log

\* ------------------------------------------------------- execution gateway
Outcomes == {"ok", "err"}

\* get_position_info: the active position, or None; None also on any error
get_position_info(posq) == IF posq = "ok" THEN gw_position ELSE NoPos

\* get_price: the ticker's lastPrice, or None on any error
get_price(pq, last_traded) == IF pq = "ok" THEN last_traded ELSE NoPrice

\* A market order of qty on side filled at price against the one-way
\* (positionIdx = 0) position pos: same side adds (average entry price, cut
\* to a whole price), opposite side nets.
GatewayFill(pos, side, qty, price) ==
    IF pos = NoPos THEN [side |-> side, size |-> qty, entry_price |-> price]
    ELSE IF pos.side = side
    THEN [side |-> side, size |-> pos.size + qty,
          entry_price |-> (pos.size * pos.entry_price + qty * price)
                          \div (pos.size + qty)]
    ELSE IF qty > pos.size
    THEN [side |-> side, size |-> qty - pos.size, entry_price |-> price]
    ELSE IF qty = pos.size THEN NoPos
    ELSE [pos EXCEPT !.size = pos.size - qty]

\* ----------------------------------------------------------- handler record
EvNone == [op |-> "init", crossed |-> NoLevel, posq |-> "none",
           branch |-> "none", pq1 |-> "none", pq2 |-> "none",
           order |-> "none"]

\* mutant: every crossing while a position is open reverses it
should_reverse_always(grid_level, level) == TRUE

\* should_reverse_position
should_reverse_position(grid_level, level) == grid_level = level

\* reverse_position: quantity of the reversing order ("your 2x method")
reverse_qty(current_qty) == current_qty * 2

\* mutant: the sides are swapped
open_side_inverted(price, grid_level) ==
    IF price > grid_level THEN "Sell" ELSE "Buy"

\* open_grid_position: side from the crossing direction
open_side(price, grid_level) == IF price > grid_level THEN "Buy" ELSE "Sell"

\* mutant: the order response is not inspected
order_succeeded_unchecked(result) == TRUE

\* "error" not in result
order_succeeded(result) == result = "ok"

\* mutant: the crossed level is not stored with the new position
opened_record_without_level(side, qty, price, grid_level) ==
    [current_position |-> [side |-> side, size |-> qty, entry_price |-> price],
     current_grid_level |-> current_grid_level]

\* open_grid_position on success: the position record and grid level it stores
opened_record(side, qty, price, grid_level) ==
    [current_position |-> [side |-> side, size |-> qty, entry_price |-> price],
     current_grid_level |-> grid_level]

\* mutant: the reversed record keeps the old side
reversed_record_same_side(current_pos, current_price) ==
    [side |-> current_pos.side,
     size |-> current_pos.size * 2,
     entry_price |-> current_price]

\* execute_reversal on success: the position record it stores
reversed_record(current_pos, current_price) ==
    [side |-> Opposite(current_pos.side),
     size |-> current_pos.size * 2,
     entry_price |-> current_price]

\* mutant: the test on the gateway answer is inverted
detect_position_closure_inverted(local, api_position) ==
    local # NoPos /\ api_position # NoPos

\* detect_position_closure: a record is tracked and the query shows none
detect_position_closure(local, api_position) ==
    local # NoPos /\ api_position = NoPos

\* locals of execute_grid_trade / open_grid_position / execute_reversal
NoLocals == [price |-> NoPrice, grid_level |-> NoLevel, current_pos |-> NoPos,
             usdt_amount |-> 0, qty |-> 0, current_price |-> NoPrice,
             calculated_pnl |-> 0, sl_price |-> NoPrice, tp_price |-> NoPrice]

\* ------------------------------------------------- StateManager (JSON file)
\* self.state is a dict: a function from some of StateKeys to numbers (a
\* position is 0 for None, 1 for a long, 2 for a short; a timestamp is the
\* reading of the clock).  A file is the sequence of tokens json.dump has
\* written so far: "{", the entries in key order, "}".
StateKeys == <<"current_position", "position_updated", "current_grid_level",
               "grid_updated", "last_updated">>
NoFile == <<<<"absent", 0>>>>
EmptyState == [k \in {} |-> 0]

\* the caller of get_recovery_info: where it is, and the record it builds
NoRecoveryInfo == [pc |-> "idle", has_position |-> FALSE, position |-> 0]

\* StateManager(): no state file yet, nothing loaded
NoStateManager ==
    [state |-> EmptyState, lock |-> FALSE, clock |-> 0,
     state_file |-> NoFile, temp_file |-> NoFile,
     recovery_info |-> NoRecoveryInfo]

\* self.state.get(key): None (0) for a missing key
state_get(st, key) == IF key \in DOMAIN st THEN st[key] ELSE 0

\* json.dump(self.state, f): the complete text
json_dump(st) ==
    LET keys == SelectSeq(StateKeys, LAMBDA k : k \in DOMAIN st)
    IN  <<<<"{", 0>>>> \o [i \in 1..Len(keys) |-> <<keys[i], st[keys[i]]>>]
        \o <<<<"}", 0>>>>

\* whether json.load accepts the text
json_valid(text) ==
    /\ Len(text) >= 2
    /\ text[1][1] = "{"
    /\ text[Len(text)][1] = "}"

\* load_state: the dict read from the state file, {} without a file or when
\* json.load raises
load_state(file) ==
    IF file = NoFile \/ ~json_valid(file) THEN EmptyState
    ELSE [k \in {file[i][1] : i \in 2..(Len(file) - 1)} |->
             file[CHOOSE i \in 2..(Len(file) - 1) : file[i][1] = k][2]]

\* mutant: the dump goes straight into the state file
temp_file_in_place(state_file) == state_file

\* temp_file = self.state_file + '.tmp'
temp_file(state_file) == "temp_file"

\* ------------------------------------------------------------------ Init
Init ==
    /\ current_position = NoPos
    /\ current_grid_level = NoLevel
    /\ last_price = NoPrice
    /\ last_grid_zone = NoZone
    /\ accumulated_losses = 0
    /\ daily_pnl = 0
    /\ total_trades = 0
    /\ conn \in BOOLEAN
    /\ bot_state = StateRow(0, 0, 0, NoLevel)
    /\ trades = <<>>
    /\ gw_position = NoPos
    /\ gw_price \in Prices
    /\ tick_pc = "idle"
    /\ tick_local = NoLocals
    /\ poll_pc = "idle"
    /\ state_manager = NoStateManager
    /\ ops = 0
    /\ ev = EvNone

\* ------------------------------------------------------- open_grid_position
OpenGridPosition(price, grid_level, e0) ==
    LET side == open_side(price, grid_level)
        usdt_amount == calculate_position_size_with_recovery(accumulated_losses)
    IN  \E pq1 \in Outcomes :
        LET p == get_price(pq1, price)
            qty == calculate_position_size(usdt_amount, p)
            e1 == [e0 EXCEPT !.branch = "open", !.pq1 = pq1]
        IN  IF p = NoPrice
            THEN \* "Failed to calculate position size"
                 /\ UNCHANGED <<botVars, storeVars, gw_position, ops, state_manager>>
                 /\ ev' = e1
            ELSE \E order \in Outcomes :
                 LET rec == opened_record(side, qty, price, grid_level)
                 IN  /\ ev' = [e1 EXCEPT !.order = order]
                     /\ IF order_succeeded(order)
                        THEN /\ gw_position' = GatewayFill(gw_position, side,
                                                           qty, p)
                             /\ current_position' = rec.current_position
                             /\ current_grid_level' = rec.current_grid_level
                             /\ trades' = log_trade(trades, side, grid_level,
                                                    usdt_amount, 0,
                                                    accumulated_losses)
                             /\ ops' = ops + 1
                             /\ UNCHANGED state_manager
                             /\ UNCHANGED <<ledgerVars, conn, bot_state>>
                        ELSE \* "Order failed"
                             UNCHANGED <<botVars, storeVars, gw_position,
                                         ops, state_manager>>

\* --------------------------------------------------------- execute_reversal
ExecuteReversal(price, current_pos, grid_level, e0) ==
    \E pq1 \in Outcomes :
    LET current_price == get_price(pq1, price)
        e1 == [e0 EXCEPT !.branch = "reverse", !.pq1 = pq1]
    IN  IF current_price = NoPrice
        THEN \* "Failed to get current price for reversal"
             /\ UNCHANGED <<botVars, storeVars, gw_position, ops, state_manager>>
             /\ ev' = e1
        ELSE
        LET calculated_pnl == calculate_exact_pnl_with_buffer(
                current_pos.entry_price, current_price,
                current_pos.size, current_pos.side)
            led == update_pnl_tracking(accumulated_losses, daily_pnl,
                                       total_trades, calculated_pnl)
            usdt_amount ==
                calculate_position_size_with_recovery(led.accumulated_losses)
            new_side == Opposite(current_pos.side)
            qty == reverse_qty(current_pos.size)
        IN  \* update_pnl_tracking FIRST, with its save_state
            /\ accumulated_losses' = led.accumulated_losses
            /\ daily_pnl' = led.daily_pnl
            /\ total_trades' = led.total_trades
            /\ bot_state' = save_state(bot_state, led.accumulated_losses,
                                       led.daily_pnl, led.total_trades,
                                       current_grid_level)
            /\ ops' = ops + 1
            /\ UNCHANGED state_manager
            /\ UNCHANGED <<current_grid_level, conn>>
            \* reverse_position: its own price query, then the order
            /\ \E pq2 \in Outcomes :
               IF get_price(pq2, price) = NoPrice
               THEN \* {"error": "Failed to get current price"}
                    /\ ev' = [e1 EXCEPT !.pq2 = pq2]
                    /\ UNCHANGED <<current_position, trades, gw_position>>
               ELSE \E order \in Outcomes :
                    /\ ev' = [e1 EXCEPT !.pq2 = pq2, !.order = order]
                    /\ IF order_succeeded(order)
                       THEN /\ gw_position' = GatewayFill(gw_position, new_side,
                                                          qty, price)
                            /\ current_position' =
                                   reversed_record(current_pos, current_price)
                            /\ trades' = log_trade(trades, new_side, grid_level,
                                                   usdt_amount, calculated_pnl,
                                                   led.accumulated_losses)
                       ELSE \* "Reversal failed": nothing else is done
                            UNCHANGED <<current_position, trades, gw_position>>

\* ------------------------------------------------------- execute_grid_trade
ExecuteGridTrade(price, grid_level) ==
    \E posq \in Outcomes :
    LET current_pos == get_position_info(posq)
        e0 == [EvNone EXCEPT !.op = "tick", !.crossed = grid_level,
                             !.posq = posq]
    IN  IF current_pos # NoPos
        THEN IF should_reverse_position(grid_level, current_grid_level)
             THEN ExecuteReversal(price, current_pos, grid_level, e0)
             ELSE /\ UNCHANGED <<botVars, storeVars, gw_position, ops, state_manager>>
                  /\ ev' = [e0 EXCEPT !.branch = "hold"]
        ELSE OpenGridPosition(price, grid_level, e0)

\* ------------------------------------------------------------ handle_ticker
\* A tick is the gateway publishing a new last traded price; price queries
\* made while the tick is handled return that price.
HandleTicker(price) ==
    LET c == check_grid_crossing(GridLevels, last_price, last_grid_zone, price)
    IN  /\ gw_price' = price
        /\ last_price' = c.last_price
        /\ last_grid_zone' = c.last_grid_zone
        /\ IF c.ret # NoLevel
           THEN ExecuteGridTrade(price, c.ret)
           ELSE /\ UNCHANGED <<botVars, storeVars, gw_position, ops, state_manager>>
                /\ ev' = [EvNone EXCEPT !.op = "tick"]

\* -------------------------------------------------- monitor_position_status
MonitorPositionStatus ==
    IF current_position = NoPos
    THEN /\ UNCHANGED <<botVars, trackerVars, storeVars, gwVars, ops, state_manager>>
         /\ ev' = [EvNone EXCEPT !.op = "poll"]
    ELSE
    \E posq \in Outcomes :
    LET api_position == get_position_info(posq)
        e0 == [EvNone EXCEPT !.op = "poll", !.posq = posq]
    IN  IF ~detect_position_closure(current_position, api_position)
        THEN /\ UNCHANGED <<botVars, trackerVars, storeVars, gwVars, ops, state_manager>>
             /\ ev' = [e0 EXCEPT !.branch = "hold"]
        ELSE
        \E pq1 \in Outcomes :
        LET current_price == get_price(pq1, gw_price)
            e1 == [e0 EXCEPT !.branch = "closure", !.pq1 = pq1]
        IN  /\ ev' = e1
            /\ IF current_price = NoPrice
               THEN UNCHANGED <<botVars, trackerVars, storeVars, gwVars, ops, state_manager>>
               ELSE
               LET calculated_pnl == calculate_exact_pnl_with_buffer(
                       current_position.entry_price, current_price,
                       current_position.size, current_position.side)
                   led == update_pnl_tracking(accumulated_losses, daily_pnl,
                                              total_trades, calculated_pnl)
               IN  /\ accumulated_losses' = led.accumulated_losses
                   /\ daily_pnl' = led.daily_pnl
                   /\ total_trades' = led.total_trades
                   /\ bot_state' = save_state(bot_state,
                                       led.accumulated_losses, led.daily_pnl,
                                       led.total_trades, current_grid_level)
                   /\ trades' = log_trade(trades, current_position.side,
                                          current_grid_level, 0, calculated_pnl,
                                          led.accumulated_losses)
                   /\ current_position' = NoPos
                   /\ current_grid_level' = NoLevel
                   /\ ops' = ops + 1
                   /\ UNCHANGED state_manager
                   /\ UNCHANGED <<trackerVars, conn, gwVars>>

\* mutant: the stored grid level is not read back
load_previous_state_without_level(row) ==
    [accumulated_losses |-> row.accumulated_losses,
     daily_pnl |-> row.daily_pnl,
     total_trades |-> row.total_trades,
     current_grid_level |-> NoLevel]

\* load_previous_state with a connection: the four columns of the bot_state
\* row (NULL ledger columns read as 0, a NULL grid level as None)
load_previous_state(row) ==
    [accumulated_losses |-> row.accumulated_losses,
     daily_pnl |-> row.daily_pnl,
     total_trades |-> row.total_trades,
     current_grid_level |-> row.current_grid_level]

\* ------------------------------------------------- process restart: __init__
\* (init_database, load_previous_state) followed by start()'s adoption of an
\* existing gateway position.  The threads of the old process are gone.
Restart(db_up, posq) ==
    LET loaded == IF db_up THEN load_previous_state(bot_state)
                  ELSE StateRow(0, 0, 0, NoLevel)
    IN  /\ conn' = db_up
        /\ accumulated_losses' = loaded.accumulated_losses
        /\ daily_pnl' = loaded.daily_pnl
        /\ total_trades' = loaded.total_trades
        /\ current_grid_level' = loaded.current_grid_level
        /\ current_position' = get_position_info(posq)
        /\ last_price' = NoPrice
        /\ last_grid_zone' = NoZone
        /\ tick_pc' = "idle"
        /\ tick_local' = NoLocals
        /\ poll_pc' = "idle"
        /\ UNCHANGED <<bot_state, trades, gwVars, ops, state_manager>>
        /\ ev' = [EvNone EXCEPT !.op = "restart", !.posq = posq]

\* ------------------------------------------------------------- environment
\* the gateway closes the position by itself (take-profit / stop-loss fill)
GatewayClose ==
    /\ gw_position # NoPos
    /\ gw_position' = NoPos
    /\ ev' = [EvNone EXCEPT !.op = "gateway_close"]
    /\ UNCHANGED <<botVars, trackerVars, storeVars, gw_price, threadVars, ops, state_manager>>

\* handlers run while below the exploration bound
Bounded == ops < MaxOps

\* Each handler run to completion with no other handler in between.
Tick ==
    /\ Bounded
    /\ \E price \in Prices : HandleTicker(price)
    /\ UNCHANGED threadVars

Poll ==
    /\ Bounded
    /\ MonitorPositionStatus
    /\ UNCHANGED threadVars

Crash == \E db_up \in BOOLEAN, posq \in Outcomes : Restart(db_up, posq)

Next == Tick \/ Poll \/ GatewayClose

Spec == Init /\ [][Next]_vars

\* ------------------------------------------------------------ the two threads
\* start(): ws.ticker_stream(callback=self.handle_ticker) runs handle_ticker on
\* the stream's delivery thread, one message at a time; the main loop calls
\* monitor_position_status every 500 iterations.  Neither takes a lock.  Each
\* action below is the code of one thread between two gateway calls.

\* handle_ticker up to get_position_info
T_Deliver(price) ==
    /\ tick_pc = "idle"
    /\ LET c == check_grid_crossing(GridLevels, last_price, last_grid_zone,
                                    price)
       IN  /\ gw_price' = price
           /\ last_price' = c.last_price
           /\ last_grid_zone' = c.last_grid_zone
           /\ IF c.ret # NoLevel
              THEN /\ tick_pc' = "get_position"
                   /\ tick_local' = [NoLocals EXCEPT !.price = price,
                                                     !.grid_level = c.ret]
              ELSE UNCHANGED <<tick_pc, tick_local>>
    /\ UNCHANGED <<botVars, storeVars, gw_position, poll_pc, ops, ev, state_manager>>

\* execute_grid_trade: get_position_info returns, the branch is chosen
T_GetPosition(posq) ==
    /\ tick_pc = "get_position"
    /\ LET current_pos == get_position_info(posq)
       IN  IF current_pos # NoPos
           THEN IF should_reverse_position(tick_local.grid_level,
                                           current_grid_level)
                THEN /\ tick_pc' = "reversal_price"
                     /\ tick_local' = [tick_local EXCEPT
                                           !.current_pos = current_pos]
                ELSE /\ tick_pc' = "idle"
                     /\ tick_local' = NoLocals
           ELSE /\ tick_pc' = "open_price"
                /\ tick_local' = [tick_local EXCEPT !.usdt_amount =
                       calculate_position_size_with_recovery(
                           accumulated_losses)]
    /\ UNCHANGED <<botVars, trackerVars, storeVars, gwVars, poll_pc, ops, ev, state_manager>>

\* open_grid_position: calculate_position_size's get_price returns
T_OpenPrice(pq1) ==
    /\ tick_pc = "open_price"
    /\ LET p == get_price(pq1, gw_price)
       IN  IF p = NoPrice
           THEN /\ tick_pc' = "idle"
                /\ tick_local' = NoLocals
           ELSE /\ tick_pc' = "open_order"
                /\ tick_local' = [tick_local EXCEPT
                       !.current_price = p,
                       !.qty = calculate_position_size(
                                   tick_local.usdt_amount, p)]
    /\ UNCHANGED <<botVars, trackerVars, storeVars, gwVars, poll_pc, ops, ev, state_manager>>

\* open_grid_position: place_order returns, the record is written
T_OpenOrder(order) ==
    /\ tick_pc = "open_order"
    /\ LET side == open_side(tick_local.price, tick_local.grid_level)
           rec == opened_record(side, tick_local.qty, tick_local.price,
                                tick_local.grid_level)
       IN  IF order_succeeded(order)
           THEN /\ gw_position' = GatewayFill(gw_position, side,
                                              tick_local.qty,
                                              tick_local.current_price)
                /\ current_position' = rec.current_position
                /\ current_grid_level' = rec.current_grid_level
                /\ trades' = log_trade(trades, side, tick_local.grid_level,
                                       tick_local.usdt_amount, 0,
                                       accumulated_losses)
                /\ ops' = ops + 1
                /\ UNCHANGED state_manager
                /\ UNCHANGED <<ledgerVars, conn, bot_state>>
           ELSE UNCHANGED <<botVars, storeVars, gw_position, ops, state_manager>>
    /\ tick_pc' = "idle"
    /\ tick_local' = NoLocals
    /\ UNCHANGED <<trackerVars, gw_price, poll_pc, ev>>

\* execute_reversal: get_price returns, the P&L is booked and saved
T_ReversalPrice(pq1) ==
    /\ tick_pc = "reversal_price"
    /\ LET current_price == get_price(pq1, gw_price)
           current_pos == tick_local.current_pos
           calculated_pnl == calculate_exact_pnl_with_buffer(
               current_pos.entry_price, current_price,
               current_pos.size, current_pos.side)
           led == update_pnl_tracking(accumulated_losses, daily_pnl,
                                      total_trades, calculated_pnl)
       IN  IF current_price = NoPrice
           THEN /\ tick_pc' = "idle"
                /\ tick_local' = NoLocals
                /\ UNCHANGED <<ledgerVars, bot_state, ops, state_manager>>
           ELSE /\ accumulated_losses' = led.accumulated_losses
                /\ daily_pnl' = led.daily_pnl
                /\ total_trades' = led.total_trades
                /\ bot_state' = save_state(bot_state, led.accumulated_losses,
                                           led.daily_pnl, led.total_trades,
                                           current_grid_level)
                /\ ops' = ops + 1
                /\ UNCHANGED state_manager
                /\ tick_pc' = "reverse_price"
                /\ tick_local' = [tick_local EXCEPT
                       !.current_price = current_price,
                       !.calculated_pnl = calculated_pnl,
                       !.usdt_amount = calculate_position_size_with_recovery(
                                           led.accumulated_losses)]
    /\ UNCHANGED <<current_position, current_grid_level, trackerVars, conn,
                   trades, gwVars, poll_pc, ev>>

\* reverse_position: its get_price returns
T_ReversePrice(pq2) ==
    /\ tick_pc = "reverse_price"
    /\ IF get_price(pq2, gw_price) = NoPrice
       THEN /\ tick_pc' = "idle"
            /\ tick_local' = NoLocals
       ELSE /\ tick_pc' = "reverse_order"
            /\ UNCHANGED tick_local
    /\ UNCHANGED <<botVars, trackerVars, storeVars, gwVars, poll_pc, ops, ev, state_manager>>

\* reverse_position's place_order returns, execute_reversal writes the record
T_ReverseOrder(order) ==
    /\ tick_pc = "reverse_order"
    /\ LET current_pos == tick_local.current_pos
           new_side == Opposite(current_pos.side)
       IN  IF order_succeeded(order)
           THEN /\ gw_position' = GatewayFill(gw_position, new_side,
                                              reverse_qty(current_pos.size),
                                              gw_price)
                /\ current_position' =
                       reversed_record(current_pos, tick_local.current_price)
                /\ trades' = log_trade(trades, new_side, tick_local.grid_level,
                                       tick_local.usdt_amount,
                                       tick_local.calculated_pnl,
                                       accumulated_losses)
           ELSE UNCHANGED <<current_position, trades, gw_position>>
    /\ tick_pc' = "idle"
    /\ tick_local' = NoLocals
    /\ UNCHANGED <<current_grid_level, ledgerVars, trackerVars, conn,
                   bot_state, gw_price, poll_pc, ops, ev, state_manager>>

\* monitor_position_status up to detect_position_closure's get_position_info
P_Start ==
    /\ poll_pc = "idle"
    /\ current_position # NoPos
    /\ poll_pc' = "get_position"
    /\ UNCHANGED <<botVars, trackerVars, storeVars, gwVars, tick_pc,
                   tick_local, ops, ev, state_manager>>

\* detect_position_closure: get_position_info returns
P_GetPosition(posq) ==
    /\ poll_pc = "get_position"
    /\ poll_pc' = IF detect_position_closure(current_position,
                                             get_position_info(posq))
                  THEN "closure_price" ELSE "idle"
    /\ UNCHANGED <<botVars, trackerVars, storeVars, gwVars, tick_pc,
                   tick_local, ops, ev, state_manager>>

\* monitor_position_status: get_price returns, the closure is booked from the
\* record held at that moment and the record is cleared
P_ClosurePrice(pq1) ==
    /\ poll_pc = "closure_price"
    /\ poll_pc' = "idle"
    /\ LET current_price == get_price(pq1, gw_price)
           calculated_pnl == calculate_exact_pnl_with_buffer(
               current_position.entry_price, current_price,
               current_position.size, current_position.side)
           led == update_pnl_tracking(accumulated_losses, daily_pnl,
                                      total_trades, calculated_pnl)
       IN  IF current_price = NoPrice
           THEN UNCHANGED <<botVars, bot_state, trades, ops, state_manager>>
           ELSE /\ accumulated_losses' = led.accumulated_losses
                /\ daily_pnl' = led.daily_pnl
                /\ total_trades' = led.total_trades
                /\ bot_state' = save_state(bot_state, led.accumulated_losses,
                                           led.daily_pnl, led.total_trades,
                                           current_grid_level)
                /\ trades' = log_trade(trades, current_position.side,
                                       current_grid_level, 0, calculated_pnl,
                                       led.accumulated_losses)
                /\ current_position' = NoPos
                /\ current_grid_level' = NoLevel
                /\ ops' = ops + 1
                /\ UNCHANGED state_manager
    /\ UNCHANGED <<trackerVars, conn, gwVars, tick_pc, tick_local, ev>>

\* the gateway closes the position by itself, seen from the two threads
G_Close ==
    /\ gw_position # NoPos
    /\ gw_position' = NoPos
    /\ UNCHANGED <<botVars, trackerVars, storeVars, gw_price, threadVars,
                   ops, ev, state_manager>>

TickThread ==
    \/ Bounded /\ \E price \in Prices : T_Deliver(price)
    \/ \E posq \in Outcomes : T_GetPosition(posq)
    \/ \E pq1 \in Outcomes : T_OpenPrice(pq1)
    \/ \E order \in Outcomes : T_OpenOrder(order)
    \/ \E pq1 \in Outcomes : T_ReversalPrice(pq1)
    \/ \E pq2 \in Outcomes : T_ReversePrice(pq2)
    \/ \E order \in Outcomes : T_ReverseOrder(order)

PollThread ==
    \/ Bounded /\ P_Start
    \/ \E posq \in Outcomes : P_GetPosition(posq)
    \/ \E pq1 \in Outcomes : P_ClosurePrice(pq1)

ThreadsNext == TickThread \/ PollThread \/ G_Close

ThreadsSpec == Init /\ [][ThreadsNext]_vars

\* ------------------------------------------------- the machine with restarts
\* The handlers of Spec, and the process dying between two of them and being
\* started again: __init__ reloads the ledger and the grid level from the
\* store, start() adopts whatever position the gateway reports.  A signal
\* ends the process too.
\* ------------------------------------------------ the periodic closure poll
\* start() calls monitor_position_status every 500 loop turns for as long as
\* the process runs, so the poll is never switched off; ticks arrive while
\* below the exploration bound.  QueriesSucceed: the last handler had no
\* failed position or price query.  Fairness: a poll whose queries succeed
\* is eventually taken whenever it would change something.
LivePoll ==
    /\ MonitorPositionStatus
    /\ UNCHANGED threadVars

QueriesSucceed == ev.posq # "err" /\ ev.pq1 # "err" /\ ev.pq2 # "err"

LiveNext ==
    \/ ops < MaxLiveOps /\ Tick
    \/ LivePoll
    \/ GatewayClose

LiveSpec ==
    Init /\ [][LiveNext]_vars /\ WF_vars(LivePoll /\ QueriesSucceed')

\* ------------------------------------------------ ticks at every whole price
\* The handlers of LiveSpec with ticks at every whole price from below the
\* lowest level to above the highest, so that a tick can start on one level
\* and land on the next.
AllPrices == (GridLevels[1] - 1)..(GridLevels[Len(GridLevels)] + 1)

GridTick ==
    /\ ops < MaxLiveOps
    /\ \E price \in AllPrices : HandleTicker(price)
    /\ UNCHANGED threadVars

GridNext ==
    \/ GridTick
    \/ LivePoll
    \/ GatewayClose

GridSpec == Init /\ [][GridNext]_vars

\* -------------------- FixedReversalTester.reverse_with_close_open_method
\* (test.py).  The method runs in tick_pc with its locals in tick_local; it
\* sleeps between the close order and the verifying query, and the gateway
\* may close the position meanwhile.  A position query is answered ("ok"),
\* answered with retCode != 0 ("err": get_position_info returns None) or
\* raises ("raise": nothing in the method catches it).  get_price raises on
\* any failure.  A market IOC order that is accepted fills or is cancelled.
Method == "reverse_with_close_open_method"
QueryOutcomes == Outcomes \cup {"raise"}
TesterStakes == {BaseUsdt * MoneyScale, 2 * BaseUsdt * MoneyScale}
TesterPositions ==
    {NoPos} \cup [side : {"Buy", "Sell"}, size : {MinQty},
                  entry_price : {GridLevels[1]}]

TesterInit ==
    /\ current_position = NoPos
    /\ current_grid_level = NoLevel
    /\ last_price = NoPrice
    /\ last_grid_zone = NoZone
    /\ accumulated_losses = 0
    /\ daily_pnl = 0
    /\ total_trades = 0
    /\ conn = FALSE
    /\ bot_state = StateRow(0, 0, 0, NoLevel)
    /\ trades = <<>>
    /\ gw_position \in TesterPositions
    /\ gw_price \in Prices
    /\ tick_pc = "idle"
    /\ tick_local = NoLocals
    /\ poll_pc = "idle"
    /\ state_manager = NoStateManager
    /\ ops = 0
    /\ ev = EvNone

\* FixedReversalTester.get_position_info
tester_get_position_info(posq) == IF posq = "ok" THEN gw_position ELSE NoPos

TesterFrame ==
    UNCHANGED <<botVars, trackerVars, storeVars, gw_price, poll_pc, ops,
                state_manager>>

\* lines 197-210: the first position query and calculate_position_size
R_Start(target_usdt_amount) ==
    /\ tick_pc = "idle"
    /\ \E posq \in QueryOutcomes, pq \in {"ok", "raise"} :
       LET current_pos == tester_get_position_info(posq)
           e0 == [EvNone EXCEPT !.op = Method, !.posq = posq]
       IN  IF posq = "raise"
           THEN /\ tick_pc' = "raised"
                /\ ev' = [e0 EXCEPT !.branch = "raised"]
                /\ UNCHANGED tick_local
           ELSE IF current_pos = NoPos
           THEN \* "No position to reverse"
                /\ tick_pc' = "returned_false"
                /\ ev' = [e0 EXCEPT !.branch = "no_position"]
                /\ UNCHANGED tick_local
           ELSE IF pq = "raise"
           THEN /\ tick_pc' = "raised"
                /\ ev' = [e0 EXCEPT !.branch = "raised", !.pq1 = pq]
                /\ UNCHANGED tick_local
           ELSE /\ tick_pc' = "close"
                /\ ev' = [e0 EXCEPT !.branch = "start", !.pq1 = pq]
                /\ tick_local' =
                       [NoLocals EXCEPT
                           !.current_pos = current_pos,
                           !.usdt_amount = target_usdt_amount,
                           !.qty = calculate_position_size(
                                       target_usdt_amount, gw_price),
                           !.current_price = gw_price]
    /\ UNCHANGED gw_position
    /\ TesterFrame

\* lines 212-217 with close_position (166-174) and place_order_no_tpsl
R_ClosePosition ==
    /\ tick_pc = "close"
    /\ \E posq \in QueryOutcomes, order \in Outcomes, filled \in BOOLEAN :
       LET pos == tester_get_position_info(posq)
           close_side == Opposite(pos.side)
           e0 == [EvNone EXCEPT !.op = Method, !.posq = posq]
       IN  IF posq = "raise"
           THEN /\ tick_pc' = "raised"
                /\ ev' = [e0 EXCEPT !.branch = "raised"]
                /\ UNCHANGED gw_position
           ELSE IF pos = NoPos
           THEN \* "No position to close", then "Failed to close position"
                /\ tick_pc' = "returned_false"
                /\ ev' = [e0 EXCEPT !.branch = "close_failed"]
                /\ UNCHANGED gw_position
           ELSE IF ~order_succeeded(order)
           THEN \* "Failed to close position"
                /\ tick_pc' = "returned_false"
                /\ ev' = [e0 EXCEPT !.branch = "close_failed",
                                     !.order = order]
                /\ UNCHANGED gw_position
           ELSE /\ tick_pc' = "wait"
                /\ ev' = [e0 EXCEPT !.branch = "close", !.order = order]
                /\ gw_position' =
                       IF filled
                       THEN GatewayFill(gw_position, close_side, pos.size,
                                        gw_price)
                       ELSE gw_position
    /\ UNCHANGED tick_local
    /\ TesterFrame

\* lines 223-240: the verifying query, then place_order_with_tpsl
R_VerifyAndOpen ==
    /\ tick_pc = "wait"
    /\ \E posq \in QueryOutcomes, order \in Outcomes :
       LET check_pos == tester_get_position_info(posq)
           reverse_side == Opposite(tick_local.current_pos.side)
           e0 == [EvNone EXCEPT !.op = Method, !.posq = posq]
       IN  IF posq = "raise"
           THEN /\ tick_pc' = "raised"
                /\ ev' = [e0 EXCEPT !.branch = "raised"]
                /\ UNCHANGED gw_position
           ELSE IF check_pos # NoPos
           THEN \* "Position still exists after close attempt"
                /\ tick_pc' = "returned_false"
                /\ ev' = [e0 EXCEPT !.branch = "still_open"]
                /\ UNCHANGED gw_position
           ELSE /\ ev' = [e0 EXCEPT !.branch = "open", !.order = order]
                /\ IF order_succeeded(order)
                   THEN /\ tick_pc' = "returned_true"
                        /\ gw_position' =
                               GatewayFill(gw_position, reverse_side,
                                           tick_local.qty, gw_price)
                   ELSE \* "Failed to open new position"
                        /\ tick_pc' = "returned_false"
                        /\ UNCHANGED gw_position
    /\ UNCHANGED tick_local
    /\ TesterFrame

\* main's command loop: the command is entered again
R_Again ==
    /\ tick_pc \in {"returned_true", "returned_false", "raised"}
    /\ ops < MaxReversals
    /\ ops' = ops + 1
    /\ tick_pc' = "idle"
    /\ tick_local' = NoLocals
    /\ ev' = [EvNone EXCEPT !.op = "command"]
    /\ UNCHANGED <<botVars, trackerVars, storeVars, gwVars, poll_pc,
                   state_manager>>

\* the exchange closes the position (TP/SL fill, manual close)
R_GatewayClose ==
    /\ gw_position # NoPos
    /\ gw_position' = NoPos
    /\ ev' = [EvNone EXCEPT !.op = "gateway_close"]
    /\ UNCHANGED tick_pc
    /\ UNCHANGED tick_local
    /\ TesterFrame

TesterNext ==
    \/ \E target_usdt_amount \in TesterStakes : R_Start(target_usdt_amount)
    \/ R_ClosePosition
    \/ R_VerifyAndOpen
    \/ R_Again
    \/ R_GatewayClose

TesterSpec == TesterInit /\ [][TesterNext]_vars

\* SIGINT / SIGTERM: signal_handler calls sys.exit(0) and the process ends;
\* the variables keep what the process held at the signal.
Shutdown ==
    /\ ev.op # "shutdown"
    /\ ev' = [EvNone EXCEPT !.op = "shutdown"]
    /\ UNCHANGED <<botVars, trackerVars, storeVars, gwVars, threadVars, ops,
                   state_manager>>

Running == ev.op # "shutdown" /\ ops < MaxRestartOps

RestartNext ==
    \/ Running /\ Tick
    \/ Running /\ Poll
    \/ GatewayClose
    \/ Shutdown
    \/ Crash

RestartSpec == Init /\ [][RestartNext]_vars

\* ------------------------------------------------------ the tracker alone
\* check_grid_crossing fed an arbitrary sequence of prices, with the levels
\* TrackerLevels; nothing is traded.  ev.crossed is the returned level.
TrackerInit ==
    /\ current_position = NoPos
    /\ current_grid_level = NoLevel
    /\ last_price = NoPrice
    /\ last_grid_zone = NoZone
    /\ accumulated_losses = 0
    /\ daily_pnl = 0
    /\ total_trades = 0
    /\ conn \in BOOLEAN
    /\ bot_state = StateRow(0, 0, 0, NoLevel)
    /\ trades = <<>>
    /\ gw_position = NoPos
    /\ gw_price \in TrackerPrices
    /\ tick_pc = "idle"
    /\ tick_local = NoLocals
    /\ poll_pc = "idle"
    /\ state_manager = NoStateManager
    /\ ops = 0
    /\ ev = EvNone

Observe(price) ==
    LET c == check_grid_crossing(TrackerLevels, last_price, last_grid_zone,
                                 price)
    IN  /\ gw_price' = price
        /\ last_price' = c.last_price
        /\ last_grid_zone' = c.last_grid_zone
        /\ ev' = [EvNone EXCEPT !.op = "observe", !.crossed = c.ret]
        /\ UNCHANGED <<botVars, storeVars, gw_position, threadVars, ops, state_manager>>

TrackerNext == \E price \in TrackerPrices : Observe(price)

TrackerSpec == TrackerInit /\ [][TrackerNext]_vars

\* ------------------------------------------------- the P&L calculator alone
\* calculate_exact_pnl_with_buffer applied to any position of PnlPrices and
\* sizes 1..MaxSize closed at any price of PnlPrices; tick_local holds the
\* arguments and the result.
Realize(entry_price, exit_price, size, side) ==
    /\ tick_local' =
           [NoLocals EXCEPT
               !.current_pos = [side |-> side, size |-> size,
                                entry_price |-> entry_price],
               !.current_price = exit_price,
               !.calculated_pnl = calculate_exact_pnl_with_buffer(
                                      entry_price, exit_price, size, side)]
    /\ ev' = [EvNone EXCEPT !.op = "realize"]
    /\ UNCHANGED <<botVars, trackerVars, storeVars, gwVars, tick_pc, poll_pc,
                   ops, state_manager>>

PnlNext ==
    \E entry_price \in PnlPrices, exit_price \in PnlPrices,
       size \in 1..MaxSize, side \in {"Buy", "Sell"} :
        Realize(entry_price, exit_price, size, side)

PnlSpec == Init /\ [][PnlNext]_vars

\* ------------------------------------------------- the order builder alone
\* Stop-loss and take-profit as open_grid_position and reverse_position
\* compute them, and as place_order attaches them: round(x, 2).  A price
\* x * (1 -+ roe / 100 / leverage) is kept exactly, as the numerator of a
\* fraction over RoeDen.
RoeDen == 100 * Leverage

\* round(num / RoeDen, 2) of a price in 1/PriceScale USDT, ties to even
round2(num) ==
    LET cent == RoeDen * (PriceScale \div 100)
        q == num \div cent
        r == num % cent
        cents == IF 2 * r > cent \/ (2 * r = cent /\ q % 2 = 1)
                 THEN q + 1 ELSE q
    IN  cents * (PriceScale \div 100)

\* open_grid_position, "Calculate TP/SL"
open_tp_sl(side, price) ==
    IF side = "Buy"
    THEN [sl_price |-> price * (RoeDen - SlRoe),
          tp_price |-> price * (RoeDen + TpRoe)]
    ELSE [sl_price |-> price * (RoeDen + SlRoe),
          tp_price |-> price * (RoeDen - TpRoe)]

\* reverse_position, "Calculate TP/SL (your exact logic)"
reverse_tp_sl(reverse_side, current_price) ==
    IF reverse_side = "Buy"
    THEN [sl_price |-> current_price * (RoeDen - SlRoe),
          tp_price |-> current_price * (RoeDen + TpRoe)]
    ELSE [sl_price |-> current_price * (RoeDen + SlRoe),
          tp_price |-> current_price * (RoeDen - TpRoe)]

\* open_grid_position up to place_order: the order as it is submitted
O_Open(side, price) ==
    LET t == open_tp_sl(side, price)
    IN  /\ tick_local' =
               [NoLocals EXCEPT
                   !.price = price,
                   !.current_pos = [side |-> side, size |-> MinQty,
                                    entry_price |-> price],
                   !.sl_price = round2(t.sl_price),
                   !.tp_price = round2(t.tp_price)]
        /\ ev' = [EvNone EXCEPT !.op = "place_order", !.branch = "open"]
        /\ UNCHANGED <<botVars, trackerVars, storeVars, gwVars, tick_pc,
                       poll_pc, ops, state_manager>>

\* reverse_position: the reversing order as it is submitted
O_Reverse(reverse_side, current_price) ==
    LET t == reverse_tp_sl(reverse_side, current_price)
    IN  /\ tick_local' =
               [NoLocals EXCEPT
                   !.price = current_price,
                   !.current_pos = [side |-> reverse_side,
                                    size |-> reverse_qty(MinQty),
                                    entry_price |-> current_price],
                   !.sl_price = round2(t.sl_price),
                   !.tp_price = round2(t.tp_price)]
        /\ ev' = [EvNone EXCEPT !.op = "place_order", !.branch = "reverse"]
        /\ UNCHANGED <<botVars, trackerVars, storeVars, gwVars, tick_pc,
                       poll_pc, ops, state_manager>>

OrderNext ==
    \E side \in {"Buy", "Sell"}, price \in OrderPrices :
        O_Open(side, price) \/ O_Reverse(side, price)

OrderSpec == Init /\ [][OrderNext]_vars

\* --------------------------------------------------- the state file alone
\* StateManager.save_state taken apart at its file operations, with the
\* process free to fail or die at each of them; the bot itself stands still.

\* the update_data of save_state(), update_position(p), update_grid_level(g)
UpdateData(now) ==
    {EmptyState}
    \cup {[k \in {"current_position", "position_updated"} |->
               IF k = "current_position" THEN p ELSE now] : p \in {0, 1}}
    \cup {[k \in {"current_grid_level", "grid_updated"} |->
               IF k = "current_grid_level" THEN g ELSE now] :
               g \in {NoLevel, GridLevels[1]}}

\* with self.lock: self.state.update(update_data), the timestamp, and
\* open(temp_file, 'w')
S_Begin(update_data) ==
    LET sm == state_manager
        now == sm.clock + 1
        st == [k \in DOMAIN sm.state \cup DOMAIN update_data
                      \cup {"last_updated"} |->
                  IF k = "last_updated" THEN now
                  ELSE IF k \in DOMAIN update_data THEN update_data[k]
                  ELSE sm.state[k]]
    IN  /\ ~sm.lock
        /\ sm.clock < MaxSaves
        /\ update_data \in UpdateData(now)
        /\ state_manager' =
               [sm EXCEPT !.state = st, !.lock = TRUE, !.clock = now,
                          ![temp_file("state_file")] = <<>>]
        /\ UNCHANGED <<botVars, trackerVars, storeVars, gwVars, threadVars,
                       ops, ev>>

\* json.dump writes the next token into the open file
S_Dump ==
    LET sm == state_manager
        t == temp_file("state_file")
        text == json_dump(sm.state)
    IN  /\ sm.lock
        /\ Len(sm[t]) < Len(text)
        /\ SubSeq(text, 1, Len(sm[t])) = sm[t]
        /\ state_manager' = [sm EXCEPT ![t] = Append(@, text[Len(@) + 1])]
        /\ UNCHANGED <<botVars, trackerVars, storeVars, gwVars, threadVars,
                       ops, ev>>

\* os.rename(temp_file, self.state_file), and the lock is released
S_Rename ==
    LET sm == state_manager
        t == temp_file("state_file")
    IN  /\ sm.lock
        /\ sm[t] = json_dump(sm.state)
        /\ state_manager' =
               [sm EXCEPT !.lock = FALSE, !.temp_file = NoFile,
                          !.state_file = sm[t]]
        /\ UNCHANGED <<botVars, trackerVars, storeVars, gwVars, threadVars,
                       ops, ev>>

\* open, json.dump or os.rename raises: "State save error", lock released
S_Fail ==
    /\ state_manager.lock
    /\ state_manager' = [state_manager EXCEPT !.lock = FALSE]
    /\ UNCHANGED <<botVars, trackerVars, storeVars, gwVars, threadVars,
                   ops, ev>>

\* the process dies and is started again: StateManager() reads the state file
S_Restart ==
    /\ state_manager' =
           [state_manager EXCEPT !.lock = FALSE,
                                 !.state = load_state(state_manager.state_file),
                                 !.recovery_info = NoRecoveryInfo]
    /\ UNCHANGED <<botVars, trackerVars, storeVars, gwVars, threadVars,
                   ops, ev>>

FileNext ==
    \/ \E update_data \in UpdateData(state_manager.clock + 1) :
           S_Begin(update_data)
    \/ S_Dump
    \/ S_Rename
    \/ S_Fail
    \/ S_Restart

FileSpec == Init /\ [][FileNext]_vars

\* ------------------------------------------------------- get_recovery_info
\* called on another thread than save_state; it takes no lock and reads
\* self.state once for each entry of the record, so a save_state may run
\* between two reads.
\* 'has_position': self.state.get('current_position') is not None
G_HasPosition ==
    LET sm == state_manager
    IN  /\ sm.recovery_info.pc \in {"idle", "returned"}
        /\ state_manager' =
               [sm EXCEPT !.recovery_info =
                   [pc |-> "has_position",
                    has_position |->
                        state_get(sm.state, "current_position") # 0,
                    position |-> 0]]
        /\ UNCHANGED <<botVars, trackerVars, storeVars, gwVars, threadVars,
                       ops, ev>>

\* 'position': self.state.get('current_position'), and the return
G_Position ==
    LET sm == state_manager
    IN  /\ sm.recovery_info.pc = "has_position"
        /\ state_manager' =
               [sm EXCEPT !.recovery_info.pc = "returned",
                          !.recovery_info.position =
                              state_get(sm.state, "current_position")]
        /\ UNCHANGED <<botVars, trackerVars, storeVars, gwVars, threadVars,
                       ops, ev>>

RecoveryNext ==
    \/ \E update_data \in UpdateData(state_manager.clock + 1) :
           S_Begin(update_data)
    \/ S_Dump
    \/ S_Rename
    \/ S_Fail
    \/ S_Restart
    \/ G_HasPosition
    \/ G_Position

RecoverySpec == Init /\ [][RecoveryNext]_vars

\* ------------------------------------------------ the ledger and its store
\* update_pnl_tracking taken apart at its one store call: the in-memory
\* update (lines 308-320), then save_state (line 323), with the process
\* free to die before, between and after.  The realized P&L is any amount of
\* PnLs; the bot holds a position, as it does wherever update_pnl_tracking is
\* called.

\* position and grid level as open_grid_position leaves them
HeldStates ==
    {opened_record(open_side(g + d, g),
                   calculate_position_size(
                       calculate_position_size_with_recovery(0), g + d),
                   g + d, g) :
        g \in {GridLevels[i] : i \in 1..Len(GridLevels)}, d \in {0 - 1, 1}}

LedgerInit ==
    /\ \E h \in HeldStates :
          /\ current_position = h.current_position
          /\ current_grid_level = h.current_grid_level
          /\ gw_position = h.current_position
          /\ gw_price = h.current_position.entry_price
    /\ last_price = NoPrice
    /\ last_grid_zone = NoZone
    /\ accumulated_losses = 0
    /\ daily_pnl = 0
    /\ total_trades = 0
    /\ conn \in BOOLEAN
    /\ bot_state = StateRow(0, 0, 0, NoLevel)
    /\ trades = <<>>
    /\ tick_pc = "idle"
    /\ tick_local = NoLocals
    /\ poll_pc = "idle"
    /\ state_manager = NoStateManager
    /\ ops = 0
    /\ ev = EvNone

\* update_pnl_tracking up to save_state
L_Update(trade_pnl) ==
    /\ tick_pc = "idle"
    /\ current_position # NoPos
    /\ total_trades < MaxUpdates
    /\ LET led == update_pnl_tracking(accumulated_losses, daily_pnl,
                                      total_trades, trade_pnl)
       IN  /\ accumulated_losses' = led.accumulated_losses
           /\ daily_pnl' = led.daily_pnl
           /\ total_trades' = led.total_trades
    /\ tick_pc' = "save_state"
    /\ tick_local' = [NoLocals EXCEPT !.calculated_pnl = trade_pnl]
    /\ ev' = [EvNone EXCEPT !.op = "update_pnl_tracking"]
    /\ UNCHANGED <<current_position, current_grid_level, trackerVars,
                   storeVars, gwVars, poll_pc, ops, state_manager>>

\* the save_state call that ends update_pnl_tracking
L_SaveState ==
    /\ tick_pc = "save_state"
    /\ bot_state' = save_state(bot_state, accumulated_losses, daily_pnl,
                               total_trades, current_grid_level)
    /\ tick_pc' = "idle"
    /\ ev' = [EvNone EXCEPT !.op = "save_state"]
    /\ UNCHANGED <<botVars, trackerVars, conn, trades, gwVars, tick_local,
                   poll_pc, ops, state_manager>>

LedgerNext == (\E trade_pnl \in PnLs : L_Update(trade_pnl)) \/ L_SaveState \/ Crash

LedgerSpec == LedgerInit /\ [][LedgerNext]_vars

\* =================================================================== claims
\* Step predicates over ev', the record of the step being taken.
CrossingProcessed == ev'.op = "tick" /\ ev'.crossed # NoLevel
GatewayReportsNone == ev'.posq = "ok" /\ gw_position = NoPos
GatewayReportsOpen == ev'.posq = "ok" /\ gw_position # NoPos
OpenOrderOk == CrossingProcessed /\ ev'.branch = "open" /\ ev'.order = "ok"
OpenOrderFailed == CrossingProcessed /\ ev'.branch = "open" /\ ev'.order = "err"
ReversalBooked == CrossingProcessed /\ ev'.branch = "reverse" /\ ev'.pq1 = "ok"
MachineUnchanged == UNCHANGED <<botVars, bot_state, trades, gw_position>>

\* C1: a crossing of level G processed while the gateway reports no position,
\* with the order accepted, leaves the machine Open: one position record is
\* held, it is the position the gateway now holds, and current_grid_level = G.
C1_OpenSetsPositionAndLevel ==
    [][ (OpenOrderOk /\ GatewayReportsNone) =>
            /\ current_position' # NoPos
            /\ current_position'.size > 0
            /\ current_position'.side = gw_position'.side
            /\ current_position'.size = gw_position'.size
            /\ current_grid_level' = ev'.crossed
            /\ ev'.crossed \in {GridLevels[i] : i \in 1..Len(GridLevels)}
      ]_vars

C1_Witness ==
    /\ ev.op = "tick" /\ ev.branch = "open" /\ ev.posq = "ok"
    /\ ev.order = "ok"
    /\ current_position # NoPos
    /\ current_grid_level = ev.crossed
    /\ gw_position.size = current_position.size

C3_ReversalAtEntryLevel ==
    [][ /\ (CrossingProcessed /\ GatewayReportsOpen
            /\ ev'.crossed = current_grid_level) => ev'.branch = "reverse"
        /\ (ReversalBooked /\ GatewayReportsOpen) =>
            LET pnl == calculate_exact_pnl_with_buffer(
                           gw_position.entry_price, gw_price',
                           gw_position.size, gw_position.side)
            IN  /\ total_trades' = total_trades + 1
                /\ daily_pnl' = daily_pnl + pnl
                /\ accumulated_losses' =
                       IF pnl < 0 THEN accumulated_losses - pnl
                       ELSE Max(0, accumulated_losses - pnl)
                /\ ev'.pq2 = "ok" => ev'.order # "none"
                /\ ev'.order = "ok" =>
                       /\ current_position'.side = Opposite(gw_position.side)
                       /\ current_position'.entry_price = gw_price'
                       /\ gw_position'.side = Opposite(gw_position.side)
      ]_vars

C3_Witness ==
    /\ ev.op = "tick" /\ ev.branch = "reverse" /\ ev.posq = "ok"
    /\ ev.order = "ok"
    /\ total_trades = 1
    /\ current_position.side = gw_position.side
    /\ current_position.entry_price = gw_price

\* C4: after a successful reversal the gateway holds the opposite side with
\* the quantity derived from the new stake (base stake plus the accumulated
\* losses after the loss-recovery update).
C4_ReversalSizedFromNewStake ==
    [][ (ReversalBooked /\ GatewayReportsOpen /\ ev'.order = "ok") =>
            /\ gw_position'.side = Opposite(gw_position.side)
            /\ gw_position'.size =
                   calculate_position_size(
                       calculate_position_size_with_recovery(
                           accumulated_losses'), gw_price')
      ]_vars

\* C5: a crossing at a level other than current_grid_level while the gateway
\* reports a position is held: no order is placed and position record, grid
\* level, ledger, stored state, trade log and gateway position are unchanged;
\* the tracker alone moves to the new price and zone.
C5_HoldAtOtherLevel ==
    [][ (CrossingProcessed /\ GatewayReportsOpen
         /\ ev'.crossed # current_grid_level) =>
            /\ ev'.branch = "hold"
            /\ ev'.order = "none"
            /\ MachineUnchanged
            /\ last_price' = gw_price'
            /\ last_grid_zone' = get_grid_zone(GridLevels, gw_price')
      ]_vars

C5_Witness ==
    /\ ev.op = "tick" /\ ev.branch = "hold" /\ ev.posq = "ok"
    /\ gw_position # NoPos
    /\ current_position # NoPos
    /\ ev.crossed # current_grid_level

\* C6: a poll that finds a position record while the gateway reports none,
\* with the price query succeeding, books the closure in that one step: the
\* P&L of the recorded position against the fetched price is applied once,
\* one trade row carrying it is appended (the store being connected) and the
\* position record and the grid level are cleared.
C6_PollBooksExternalClosure ==
    [][ /\ (ev'.op = "poll" /\ current_position # NoPos
            /\ GatewayReportsNone) => ev'.branch = "closure"
        /\ (ev'.op = "poll" /\ ev'.branch = "closure" /\ GatewayReportsNone
            /\ ev'.pq1 = "ok") =>
            LET pnl == calculate_exact_pnl_with_buffer(
                           current_position.entry_price, gw_price,
                           current_position.size, current_position.side)
            IN  /\ total_trades' = total_trades + 1
                /\ daily_pnl' = daily_pnl + pnl
                /\ accumulated_losses' =
                       IF pnl < 0 THEN accumulated_losses - pnl
                       ELSE Max(0, accumulated_losses - pnl)
                /\ conn => /\ Len(trades') = Len(trades) + 1
                           /\ SubSeq(trades', 1, Len(trades)) = trades
                           /\ trades'[Len(trades')].pnl = pnl
                /\ current_position' = NoPos
                /\ current_grid_level' = NoLevel
      ]_vars

C6_Witness ==
    /\ ev.op = "poll" /\ ev.branch = "closure" /\ ev.posq = "ok"
    /\ ev.pq1 = "ok"
    /\ conn /\ Len(trades) = 2 /\ total_trades = 1
    /\ current_position = NoPos /\ current_grid_level = NoLevel
    /\ gw_position = NoPos

\* C7: a failed position query at a crossing or at a poll skips the cycle: no
\* order is placed, no closure is booked, position and ledger are unchanged.
C7_FailedPositionQuerySkips ==
    [][ (ev'.op \in {"tick", "poll"} /\ ev'.posq = "err") =>
            /\ ev'.order = "none"
            /\ ev'.branch \notin {"open", "reverse", "closure"}
            /\ MachineUnchanged
      ]_vars

\* C8: a failed price query anywhere inside a transition leaves position
\* record, grid level and ledger as they were before the transition.
C8_FailedPriceQueryAborts ==
    [][ (ev'.pq1 = "err" \/ ev'.pq2 = "err") =>
            UNCHANGED <<current_position, current_grid_level, ledgerVars>>
      ]_vars

\* C9: when the reversing order fails the booked P&L is kept and the position
\* record is left as it was, and the machine reconciles with the gateway
\* before processing a further crossing: the crossing handled right after the
\* failure does not book the still-open position a second time.
ReversalOrderFailed(e) ==
    e.op = "tick" /\ e.branch = "reverse" /\ e.pq1 = "ok" /\ e.order = "err"

C9_FailedReversalReconciled ==
    [][ /\ ReversalOrderFailed(ev') =>
            /\ total_trades' = total_trades + 1
            /\ UNCHANGED <<current_position, current_grid_level, gw_position>>
        /\ ReversalOrderFailed(ev) => ~ReversalBooked
      ]_vars

\* C10: the tick handler and the closure check are serialized: the closure
\* check is never between its first read of the position record and its last
\* write while the tick handler is between its position query and its last
\* write.  (Ticks are handled one at a time by the single delivery thread.)
TickInTransition ==
    tick_pc \in {"open_price", "open_order", "reversal_price",
                 "reverse_price", "reverse_order"}
PollInTransition == poll_pc \in {"get_position", "closure_price"}

C10_HandlersSerialized == ~(TickInTransition /\ PollInTransition)

\* C11: the loss-recovery update and its store write are atomic with respect
\* to a restart: whenever the process dies (before, inside or after
\* update_pnl_tracking) with the store connected and comes back with the
\* store opened, the reloaded accumulated_losses, daily_pnl and total_trades
\* are the ledger the process held, every applied P&L counted exactly once.
C11_UpdateAtomicWithStore ==
    [][ (ev'.op = "restart" /\ conn /\ conn') =>
            /\ accumulated_losses' = accumulated_losses
            /\ daily_pnl' = daily_pnl
            /\ total_trades' = total_trades
      ]_vars

\* C12: save_state, then a crash, then load_previous_state over the same
\* store give back the accumulated_losses, total_trades and
\* current_grid_level that were saved, a null grid level included.
C12_SaveCrashLoadRoundTrip ==
    [][ (ev.op = "save_state" /\ ev'.op = "restart" /\ conn /\ conn') =>
            /\ accumulated_losses' = accumulated_losses
            /\ total_trades' = total_trades
            /\ current_grid_level' = current_grid_level
      ]_vars

\* a reload that found a saved ledger with a null grid level
C12_Witness ==
    /\ ev.op = "restart" /\ conn
    /\ total_trades > 0 /\ accumulated_losses > 0
    /\ bot_state = StateRow(accumulated_losses, daily_pnl, total_trades,
                            NoLevel)
    /\ current_grid_level = NoLevel

\* C13: in every state, the one right after a restart included,
\* current_grid_level is non-null exactly when a position record is held.
C13_GridLevelIffPosition ==
    (current_grid_level # NoLevel) <=> (current_position # NoPos)

\* C14: the machine never holds two Open positions at once: an opening order
\* is filled only while the gateway holds no position, and every step that
\* changes a held position record leaves either no record (and no grid
\* level) or one record with a side and a positive size.
C14_NeverTwoOpenPositions ==
    [][ /\ OpenOrderOk => gw_position = NoPos
        /\ (current_position # NoPos
            /\ current_position' # current_position) =>
               \/ current_position' = NoPos /\ current_grid_level' = NoLevel
               \/ /\ current_position'.side \in {"Buy", "Sell"}
                  /\ current_position'.size > 0
      ]_vars

\* C15: accumulated_losses is never negative, in memory or in the stored row,
\* after any sequence of realized profits and losses and after any reload.
C15_LossesNeverNegative ==
    accumulated_losses >= 0 /\ bot_state.accumulated_losses >= 0

\* a profit larger than the outstanding losses has just been applied
C15_Witness ==
    /\ tick_pc = "save_state" /\ conn
    /\ bot_state.accumulated_losses > 0
    /\ bot_state.total_trades + 1 = total_trades
    /\ tick_local.calculated_pnl > bot_state.accumulated_losses
    /\ accumulated_losses = 0

\* C16: applying a realized P&L p adds |p| to accumulated_losses when p < 0
\* and makes it max(0, accumulated_losses - p) when p >= 0, the amount
\* recovered being min(accumulated_losses, p); daily_pnl grows by p and
\* total_trades by exactly 1.
C16_LossRecoveryUpdate ==
    [][ ev'.op = "update_pnl_tracking" =>
            LET p == tick_local'.calculated_pnl
                recovered == IF accumulated_losses < p
                             THEN accumulated_losses ELSE p
            IN  /\ p < 0 => accumulated_losses' = accumulated_losses + Abs(p)
                /\ p >= 0 =>
                       /\ accumulated_losses' = Max(0, accumulated_losses - p)
                       /\ accumulated_losses - accumulated_losses' = recovered
                /\ daily_pnl' = daily_pnl + p
                /\ total_trades' = total_trades + 1
      ]_vars

\* a profit of 2 applied to outstanding losses of 3: 1 remains
C16_Witness ==
    /\ ev.op = "update_pnl_tracking"
    /\ tick_local.calculated_pnl = 2 * MoneyScale
    /\ accumulated_losses = MoneyScale
    /\ daily_pnl = 0 - MoneyScale
    /\ total_trades = 2

\* C17: the stake of every order opened from Flat is the base stake plus the
\* losses outstanding at that moment, never less than the base stake: the
\* order quantity is computed from it and the trade row records it.
C17_StakeIsBasePlusLosses ==
    [][ OpenOrderOk =>
            LET stake == BaseUsdt * MoneyScale + accumulated_losses
            IN  /\ stake >= BaseUsdt * MoneyScale
                /\ calculate_position_size_with_recovery(accumulated_losses)
                       = stake
                /\ current_position'.size =
                       Max(MinQty, (stake * Leverage)
                                       \div (gw_price' * MoneyScale))
                /\ conn => trades'[Len(trades')].usdt_amount = stake
      ]_vars

\* a position opened from Flat with losses outstanding
C17_Witness ==
    /\ ev.op = "tick" /\ ev.branch = "open" /\ ev.posq = "ok"
    /\ ev.order = "ok"
    /\ accumulated_losses > 0
    /\ conn
    /\ trades[Len(trades)].usdt_amount =
           BaseUsdt * MoneyScale + accumulated_losses

\* C18: for strictly increasing levels, zone(price) is the index of the
\* first level >= price, or N when the price is above all N levels, so it
\* lies in 0..N; for levels 10, 20, 30: zone(5) = 0, zone(10) = 0,
\* zone(15) = 1, zone(25) = 2, zone(35) = 3; and the zone the tracker holds
\* is the zone of the price it holds.
LevelLists == {<<10>>, <<10, 20, 30>>, <<2, 3, 5, 8>>, GridLevels}

C18_ZoneIsFirstLevelAtOrAbove ==
    /\ \A levels \in LevelLists, price \in TrackerPrices :
           LET z == get_grid_zone(levels, price)
           IN  /\ z \in 0..Len(levels)
               /\ \A j \in 1..z : levels[j] < price
               /\ z < Len(levels) => levels[z + 1] >= price
    /\ get_grid_zone(<<10, 20, 30>>, 5) = 0
    /\ get_grid_zone(<<10, 20, 30>>, 10) = 0
    /\ get_grid_zone(<<10, 20, 30>>, 15) = 1
    /\ get_grid_zone(<<10, 20, 30>>, 25) = 2
    /\ get_grid_zone(<<10, 20, 30>>, 35) = 3
    /\ last_price # NoPrice =>
           last_grid_zone =
               Cardinality({j \in 1..Len(TrackerLevels) :
                               TrackerLevels[j] < last_price})

\* the tracker holds a price above all levels, in zone N
C18_Witness ==
    /\ ev.op = "observe"
    /\ last_price = 35
    /\ last_grid_zone = Len(TrackerLevels)

\* C19: on every call of check_grid_crossing after the first, if the zone of
\* the new price differs from the zone of the previous price, a level is
\* returned and it lies between the previous and the current price, the
\* boundary in the direction of travel included.
C19_ZoneChangeReportsCrossing ==
    [][ (ev'.op = "observe" /\ last_price # NoPrice
         /\ last_grid_zone' # last_grid_zone) =>
            /\ ev'.crossed # NoLevel
            /\ last_price < last_price' =>
                   last_price < ev'.crossed /\ ev'.crossed <= last_price'
            /\ last_price' < last_price =>
                   last_price' <= ev'.crossed /\ ev'.crossed < last_price
      ]_vars

\* C20: when L is the only level between two consecutive prices p then q
\* (between as the tracker counts it: strictly inside, or on the price
\* arrived at), check_grid_crossing reports L both when the price rises
\* through it (p < L < q) and when it falls through it (q < L < p).
OnlyLevelBetween(L, p, q) ==
    {TrackerLevels[j] : j \in 1..Len(TrackerLevels)}
        \cap {x \in TrackerPrices : (p < x /\ x <= q) \/ (q <= x /\ x < p)}
    = {L}

C20_SingleLevelReportedBothWays ==
    [][ (ev'.op = "observe" /\ last_price # NoPrice) =>
            \A j \in 1..Len(TrackerLevels) :
                LET L == TrackerLevels[j]
                    p == last_price
                    q == last_price'
                IN  (((p < L /\ L < q) \/ (q < L /\ L < p))
                     /\ OnlyLevelBetween(L, p, q)) => ev'.crossed = L
      ]_vars

\* the price has just risen through 10, the one level below 11
C20_Witness ==
    /\ ev.op = "observe"
    /\ last_price = 11
    /\ ev.crossed = 10

\* C21: the realized P&L is the raw P&L ((exit - entry) * size for a long,
\* (entry - exit) * size for a short) minus 0.00055 of the entry notional and
\* of the exit notional, and, exactly when that after-fees value is negative,
\* less a further 3% of its absolute value: a loss is recorded strictly
\* larger than the after-fees loss, a non-negative after-fees value is
\* returned as it is.  Long 100 -> 110, size 1: 9.8845; long 100 -> 90,
\* size 1: -10.407635.  Amounts are in 1/MoneyScale USDT.
C21_RealizedPnl ==
    /\ ev.op = "realize" =>
           LET pos == tick_local.current_pos
               exit == tick_local.current_price
               raw == IF pos.side = "Buy"
                      THEN (exit - pos.entry_price) * pos.size
                      ELSE (pos.entry_price - exit) * pos.size
               \* fees of 0.00055 = 1100 / MoneyScale per unit of notional
               fees == (pos.size * pos.entry_price + pos.size * exit) * 1100
               after_fees == raw * MoneyScale - fees
               final == tick_local.calculated_pnl
           IN  /\ after_fees >= 0 => final = after_fees
               /\ after_fees < 0 =>
                      /\ (final - after_fees) * 100 = 3 * after_fees
                      /\ final < after_fees
    /\ calculate_exact_pnl_with_buffer(100, 110, 1, "Buy") = 19769000
    /\ calculate_exact_pnl_with_buffer(100, 90, 1, "Buy") = 0 - 20815270

\* the worked example: long 1 @ 100 closed at 110 gives 9.8845
C21_Witness ==
    /\ ev.op = "realize"
    /\ tick_local.current_pos = [side |-> "Buy", size |-> 1,
                                 entry_price |-> 100]
    /\ tick_local.current_price = 110
    /\ tick_local.calculated_pnl = 19769000

\* C22: a position opened from Flat is long (Buy) when the tick price is
\* above the crossed level and short (Sell) when it is below it.
C22_OpenSideFromDirection ==
    (ev.op = "tick" /\ ev.branch = "open" /\ ev.order = "ok") =>
        /\ gw_price > ev.crossed => current_position.side = "Buy"
        /\ gw_price < ev.crossed => current_position.side = "Sell"

\* a short opened below the crossed level
C22_Witness ==
    /\ ev.op = "tick" /\ ev.branch = "open" /\ ev.order = "ok"
    /\ ev.posq = "ok"
    /\ gw_price < ev.crossed
    /\ current_position.side = "Sell"
    /\ gw_position.side = "Sell"

\* C23: for entry price P the stop-loss and take-profit attached to an order
\* are P * (1 - SL_ROE/100/L) and P * (1 + TP_ROE/100/L) for a long, the
\* signs inverted for a short (to the cent the order carries), in the
\* opening and in the reversal path alike; hence sl < P < tp for every long
\* and tp < P < sl for every short.
C23_TpSlAroundEntry ==
    ev.op = "place_order" =>
        LET P == tick_local.price
            sl == tick_local.sl_price
            tp == tick_local.tp_price
            half_cent == RoeDen * (PriceScale \div 100)
            long == tick_local.current_pos.side = "Buy"
            exact_sl == IF long THEN P * (RoeDen - SlRoe)
                        ELSE P * (RoeDen + SlRoe)
            exact_tp == IF long THEN P * (RoeDen + TpRoe)
                        ELSE P * (RoeDen - TpRoe)
        IN  /\ 2 * Abs(sl * RoeDen - exact_sl) <= half_cent
            /\ 2 * Abs(tp * RoeDen - exact_tp) <= half_cent
            /\ long => (sl < P /\ P < tp)
            /\ ~long => (tp < P /\ P < sl)

\* C24: a reader of the persisted state record never sees a partially
\* applied update: at every moment, also while save_state runs or after it
\* was interrupted, the state file is absent or a complete JSON text, and
\* every step leaves it as it was or replaces it by the complete new state.
C24_StateRecordWrittenAtomically ==
    [][ /\ \/ state_manager'.state_file = NoFile
           \/ json_valid(state_manager'.state_file)
        /\ \/ state_manager'.state_file = state_manager.state_file
           \/ state_manager'.state_file = json_dump(state_manager.state)
      ]_vars

\* a save is under way: the temp file is half written, the state file still
\* holds the complete previous state
C24_Witness ==
    /\ state_manager.lock
    /\ Len(state_manager.temp_file) >= 2
    /\ ~json_valid(state_manager.temp_file)
    /\ json_valid(state_manager.state_file)
    /\ load_state(state_manager.state_file) # state_manager.state
    /\ load_state(state_manager.state_file).last_updated + 1
           = state_manager.state.last_updated

\* C25: the trade log is append-only: every step leaves it unchanged or
\* appends exactly one record, and no record already written is changed or
\* removed, across restarts too.
C25_TradeLogAppendOnly ==
    [][ \/ trades' = trades
        \/ /\ Len(trades') = Len(trades) + 1
           /\ SubSeq(trades', 1, Len(trades)) = trades
      ]_vars

\* an opening record followed by the record of its closure or reversal
C25_Witness ==
    /\ Len(trades) = 2
    /\ trades[1].pnl = 0 /\ trades[1].usdt_amount = BaseUsdt * MoneyScale
    /\ trades[2].pnl # 0

\* C26: on SIGINT or SIGTERM the pending ledger state is flushed before the
\* process exits: with the store connected, the stored row after the exit is
\* the accumulated_losses, daily_pnl, total_trades and current_grid_level
\* the process held at the signal.
C26_ShutdownFlushesState ==
    (ev.op = "shutdown" /\ conn) =>
        bot_state = StateRow(accumulated_losses, daily_pnl, total_trades,
                             current_grid_level)

C29_ObserveRefreshesTracker ==
    [][ ev'.op = "observe" =>
            /\ last_price = NoPrice => ev'.crossed = NoLevel
            /\ last_price' = gw_price'
            /\ last_grid_zone' =
                   Cardinality({j \in 1..Len(TrackerLevels) :
                                   TrackerLevels[j] < gw_price'})
      ]_vars

\* a call that reported nothing left the tracker at price 15 in zone 1
C29_Witness ==
    /\ ev.op = "observe"
    /\ ev.crossed = NoLevel
    /\ last_price = 15
    /\ last_grid_zone = 1

\* C30: when one price move crosses several levels (levels L with
\* p < L <= q on the way up, q <= L < p on the way down),
\* check_grid_crossing reports the lowest of them, whichever way the price
\* moved; on the way down that is the level farthest from the previous price.
C30_LowestCrossedLevelReported ==
    [][ (ev'.op = "observe" /\ last_price # NoPrice) =>
            LET p == last_price
                q == last_price'
                between == {TrackerLevels[j] : j \in 1..Len(TrackerLevels)}
                              \cap {x \in TrackerPrices :
                                       \/ p < x /\ x <= q
                                       \/ q <= x /\ x < p}
            IN  Cardinality(between) >= 2 =>
                    /\ ev'.crossed \in between
                    /\ \A x \in between : ev'.crossed <= x
      ]_vars

\* the price rose from below 10 to 35 across all three levels: 10 reported
C30_Witness ==
    /\ ev.op = "observe"
    /\ last_price = MaxPrice
    /\ last_grid_zone = Len(TrackerLevels)
    /\ ev.crossed = TrackerLevels[1]

\* C28: if from some point on every position and price query succeeds, then
\* with the periodic poll scheduled fairly, whenever the gateway has closed
\* the tracked position (a position record is held, the gateway holds none)
\* the machine eventually becomes Flat.
C28_ExternalClosureLeadsToFlat ==
    <>[]QueriesSucceed =>
        ((current_position # NoPos /\ gw_position = NoPos)
            ~> (current_position = NoPos))

\* C31: the realized P&L of one gateway position is applied to the ledger
\* at most once.  Every gateway position comes from an accepted order and
\* every accepted order writes one row with its stake into the trade log,
\* so with the store connected the number of applied P&Ls never exceeds the
\* number of such rows.
AcceptedOrders == {i \in 1..Len(trades) : trades[i].usdt_amount > 0}

C31_PnlBookedAtMostOnce ==
    conn => total_trades <= Cardinality(AcceptedOrders)

\* C32: a position the gateway closed externally has its realized P&L
\* applied to the ledger before the machine records a new position: a
\* crossing handled right after the external closure, before any closure
\* poll, does not write a new position record unless the old one is booked.
C32_ExternalClosureBookedBeforeOpen ==
    [][ (ev.op = "gateway_close" /\ current_position # NoPos /\ OpenOrderOk)
            => total_trades' = total_trades + 1
      ]_vars

\* C33: after a successful reversal the size in the local position record is
\* the size of the net position the gateway then holds.
C33_ReversedRecordMirrorsGateway ==
    (ev.op = "tick" /\ ev.branch = "reverse" /\ ev.posq = "ok"
     /\ ev.order = "ok")
        => current_position.size = gw_position.size

\* C34: while a position is open (record held, gateway reports it), every
\* tick whose previous and current price lie on opposite sides of
\* current_grid_level enters the reversal, whatever other levels the same
\* tick crosses.
PassesEntryLevel ==
    /\ last_price # NoPrice
    /\ current_grid_level # NoLevel
    /\ \/ last_price < current_grid_level /\ current_grid_level < last_price'
       \/ last_price' < current_grid_level /\ current_grid_level < last_price

C34_PassingEntryLevelReverses ==
    [][ (ev'.op = "tick" /\ current_position # NoPos /\ GatewayReportsOpen
         /\ PassesEntryLevel)
            => ev'.branch = "reverse"
      ]_vars

\* C35: when Flat, an accepted opening order placed for a crossing reported
\* on a tick that moved upward opens a long (Buy), and on a tick that moved
\* downward a short (Sell), also when the tick price is exactly the level.
C35_OpenSideFollowsTravel ==
    [][ (OpenOrderOk /\ current_position = NoPos /\ gw_position = NoPos)
            => /\ last_price' > last_price => current_position'.side = "Buy"
               /\ last_price' < last_price => current_position'.side = "Sell"
      ]_vars

\* C36: with the store connected, after every completed transition (an
\* accepted opening from Flat, an accepted reversal, a booked external
\* closure) the stored row equals the in-memory accumulated_losses,
\* daily_pnl, total_trades and current_grid_level.
TransitionCompleted ==
    \/ ev.op = "tick" /\ ev.branch \in {"open", "reverse"} /\ ev.order = "ok"
    \/ ev.op = "poll" /\ ev.branch = "closure" /\ ev.pq1 = "ok"

C36_StoredRowMirrorsMemory ==
    (conn /\ TransitionCompleted) =>
        /\ bot_state.accumulated_losses = accumulated_losses
        /\ bot_state.daily_pnl = daily_pnl
        /\ bot_state.total_trades = total_trades
        /\ bot_state.current_grid_level = current_grid_level

\* C37: with the store connected, after every handler total_trades is the
\* number of closure and reversal rows in the trade log (the rows other than
\* the zero-P&L rows written when opening from Flat) and daily_pnl is the sum
\* of their pnl.
IsOpeningRow(row) == row.pnl = 0 /\ row.usdt_amount > 0

RECURSIVE SumPnl(_)
SumPnl(log) ==
    IF log = <<>> THEN 0
    ELSE (IF IsOpeningRow(Head(log)) THEN 0 ELSE Head(log).pnl)
         + SumPnl(Tail(log))

C37_LedgerMatchesTradeLog ==
    conn =>
        /\ total_trades =
               Cardinality({i \in 1..Len(trades) : ~IsOpeningRow(trades[i])})
        /\ daily_pnl = SumPnl(trades)

\* C38: reverse_with_close_open_method places the opening order only after
\* the close order succeeded and the position query that follows it found
\* the gateway without a position; when there is no position, the close
\* fails or a position is still reported after the close, it returns False
\* and no order reaches the gateway in that step.
C38_OpenOnlyAfterVerifiedClose ==
    [][ ev'.op = Method =>
          /\ ev'.branch = "open" =>
                 /\ tick_pc = "wait"
                 /\ gw_position = NoPos
          /\ ev'.branch \in {"no_position", "close_failed", "still_open"} =>
                 /\ tick_pc' = "returned_false"
                 /\ UNCHANGED gw_position
      ]_vars

\* C39: get_recovery_info returns a consistent record also while
\* update_position or save_state runs on another thread: in every returned
\* record has_position is true exactly when the returned position is not
\* None.
C39_RecoveryInfoConsistent ==
    state_manager.recovery_info.pc = "returned" =>
        (state_manager.recovery_info.has_position
            <=> state_manager.recovery_info.position # 0)

====
